---- MODULE Spec2Model ----
(***************************************************************************)
(* Gate reassignment engine (aae5103/project/gate_assignment_engine.py)    *)
(* and its HTTP entry point (aae5103/project/app.py).                      *)
(*                                                                         *)
(* One step of the model is one whole call of reassign_gates, made either  *)
(* directly or through POST /reassign.  The committed state is the pair of *)
(* module globals _latest_flights_df / _latest_assignment; the other       *)
(* variables record the last call (its input, the working copy it planned  *)
(* on, what the backend answered) and the result it returned.              *)
(***************************************************************************)
EXTENDS Integers, Sequences, FiniteSets, TLC

(* ------------------------------ bounds -------------------------------- *)
NumFlights == 3
NumGates == 3
MaxEvents == 1
MaxClosed == 2
MaxDelays == 2
MaxEventSize == 2
MaxSeqEvents == 2
MaxMinute == 5
MaxBuffer == 3

(* ------------------------- program constants -------------------------- *)
BUFFER_TIME == 30
FLIGHT_OCCUPATION_BEFORE == 30
FLIGHT_OCCUPATION_AFTER == 30

(* --------------------------- the input data --------------------------- *)
\* Row labels of flight.xlsx: the flight number doubles as the row index.
Flights == 1 .. NumFlights
\* gate_names, in the order of the distance matrix index.
Gates == 1 .. NumGates
\* An id that names no gate of the distance matrix / no flight of the table.
UnknownGate == NumGates + 1
UnknownFlight == NumFlights + 1

\* A time string.  "HH:MM" stands for a text that splits at ':' into two
\* fields int() accepts (the fields are hh and mm, whatever their range);
\* "garbage" for every other text (split or int() raises).
TimeString(h, m) == [fmt |-> "HH:MM", hh |-> h, mm |-> m]
Garbage == [fmt |-> "garbage", hh |-> 0, mm |-> 0]
WellFormedTimes == <<TimeString(10, 0), TimeString(11, 0), TimeString(11, 30)>>
\* int()-parsable, but outside 0..23 / 0..59.
OutOfRange == TimeString(25, 99)
\* A delay entry that lacks the key: flight['no'] or flight['new_time']
\* raises KeyError.
NoKey == 0
NoTime == [fmt |-> "absent", hh |-> 0, mm |-> 0]
TimeStrings == {WellFormedTimes[i] : i \in DOMAIN WellFormedTimes} \cup {OutOfRange, Garbage}

\* Option values: None is the empty tuple, a present value v is <<v>>.
None == <<>>
Some(v) == <<v>>

\* distance.xlsx, in thousandths of a distance unit: a square table over
\* the gates, zero on the diagonal, not symmetric.
distance_df(g, h) ==
    IF g = h THEN 0
    ELSE IF g < h THEN 1250 * (h - g) + 5 * g
    ELSE 900 * (g - h) + 7 * h

\* distance_matrix: int(d * 100) of every entry.
distance_matrix(g, h) == (distance_df(g, h) * 100) \div 1000

(* ---------------------------- pure helpers ---------------------------- *)
\* The try block of time_to_minutes succeeds.
TimeParses(t) == t.fmt = "HH:MM"

\* time_to_minutes, where it does not raise.
time_to_minutes(t) == t.hh * 60 + t.mm

Min(a, b) == IF a <= b THEN a ELSE b
Max(a, b) == IF a >= b THEN a ELSE b

\* check_time_overlap with the buffer test made inclusive (a gap of exactly
\* buffer_time counted as a conflict).
check_time_overlap_inclusive(s1, e1, s2, e2, buffer_time) ==
    IF e1 <= s2
    THEN IF s2 - e1 <= buffer_time
         THEN [conflict |-> TRUE, value |-> Some(s2 - e1)]
         ELSE [conflict |-> FALSE, value |-> None]
    ELSE IF e2 <= s1
    THEN IF s1 - e2 <= buffer_time
         THEN [conflict |-> TRUE, value |-> Some(s1 - e2)]
         ELSE [conflict |-> FALSE, value |-> None]
    ELSE [conflict |-> TRUE, value |-> Some(Min(e1, e2) - Max(s1, s2))]

\* check_time_overlap: (conflict flag, magnitude or None).
check_time_overlap(s1, e1, s2, e2, buffer_time) ==
    IF e1 <= s2
    THEN IF s2 - e1 < buffer_time
         THEN [conflict |-> TRUE, value |-> Some(s2 - e1)]
         ELSE [conflict |-> FALSE, value |-> None]
    ELSE IF e2 <= s1
    THEN IF s1 - e2 < buffer_time
         THEN [conflict |-> TRUE, value |-> Some(s1 - e2)]
         ELSE [conflict |-> FALSE, value |-> None]
    ELSE [conflict |-> TRUE, value |-> Some(Min(e1, e2) - Max(s1, s2))]

\* Row with the window wrapped into the day (minutes modulo 1440).
Row_wrapped(g, t) ==
    [gate |-> g, deptime |-> t,
     start |-> (time_to_minutes(t) - FLIGHT_OCCUPATION_BEFORE) % 1440,
     end |-> (time_to_minutes(t) + FLIGHT_OCCUPATION_AFTER) % 1440]

\* A row of the flights DataFrame (the columns the engine reads).
Row(g, t) ==
    [gate |-> g, deptime |-> t,
     start |-> time_to_minutes(t) - FLIGHT_OCCUPATION_BEFORE,
     end |-> time_to_minutes(t) + FLIGHT_OCCUPATION_AFTER]

\* The two rows are same-gate incompatible (check_time_overlap's flag).
RowsConflict(r1, r2) ==
    check_time_overlap(r1.start, r1.end, r2.start, r2.end, BUFFER_TIME).conflict

(* ------------------------- the event processor ------------------------ *)
\* valid_gates with one unknown id voiding the whole list.
valid_gates_all_or_nothing(closed_gates) ==
    IF closed_gates \subseteq Gates THEN closed_gates ELSE {}

\* Step 5 of reassign_gates: the closed gates that are known gate names.
valid_gates(closed_gates) == closed_gates \cap Gates

\* ApplyDelays with only the start of the window recomputed (the row keeps
\* the end it had before the delay).
RECURSIVE ApplyDelays_stale_end(_, _)
ApplyDelays_stale_end(df, delayed_flights) ==
    IF delayed_flights = <<>> THEN [df |-> df, raised |-> FALSE]
    ELSE LET flight == Head(delayed_flights) IN
         IF flight.no = NoKey
         THEN [df |-> df, raised |-> TRUE]
         ELSE IF flight.no \notin DOMAIN df
         THEN ApplyDelays_stale_end(df, Tail(delayed_flights))
         ELSE IF ~TimeParses(flight.new_time)
         THEN [df |-> df, raised |-> TRUE]
         ELSE ApplyDelays_stale_end(
                [df EXCEPT ![flight.no] =
                    [Row(@.gate, flight.new_time) EXCEPT !.end = df[flight.no].end]],
                Tail(delayed_flights))

\* Step 6: the delay list applied, in order, to the working copy.  A delay
\* that names no flight is skipped; an entry without 'no', or a known
\* flight's entry whose new time is absent or makes time_to_minutes raise,
\* ends the call (raised).
RECURSIVE ApplyDelays(_, _)
ApplyDelays(df, delayed_flights) ==
    IF delayed_flights = <<>> THEN [df |-> df, raised |-> FALSE]
    ELSE LET flight == Head(delayed_flights) IN
         IF flight.no = NoKey
         THEN [df |-> df, raised |-> TRUE]
         ELSE IF flight.no \notin DOMAIN df
         THEN ApplyDelays(df, Tail(delayed_flights))
         ELSE IF ~TimeParses(flight.new_time)
         THEN [df |-> df, raised |-> TRUE]
         ELSE ApplyDelays(
                [df EXCEPT ![flight.no] = Row(@.gate, flight.new_time)],
                Tail(delayed_flights))

\* gate_conflicts with the scan made without the buffer (buffer_time 0:
\* only overlapping windows are reported).
gate_conflicts_unbuffered(df) ==
    {g \in Gates : \E i, j \in DOMAIN df :
        /\ i < j
        /\ df[i].gate = g
        /\ df[j].gate = g
        /\ check_time_overlap(df[i].start, df[i].end,
                              df[j].start, df[j].end, 0).conflict}

\* Step 8: the gates on which two flights of the working copy conflict.
gate_conflicts(df) ==
    {g \in Gates : \E i, j \in DOMAIN df :
        /\ i < j
        /\ df[i].gate = g
        /\ df[j].gate = g
        /\ RowsConflict(df[i], df[j])}

\* unavailable_gates with the validated closures lost (valid_gates never
\* copied back into unavailable_gates).
unavailable_gates_closures_lost(df, closed_gates) ==
    IF gate_conflicts(df) # {} /\ closed_gates = {}
    THEN gate_conflicts(df)
    ELSE {}

\* unavailable_gates without step 9 (conflicted gates never added).
unavailable_gates_closures_only(df, closed_gates) == valid_gates(closed_gates)

\* Steps 5 and 9: the gates no flight may be assigned to.  Conflicted gates
\* are added only when the event itself names no closed gate.
unavailable_gates(df, closed_gates) ==
    IF gate_conflicts(df) # {} /\ closed_gates = {}
    THEN valid_gates(closed_gates) \cup gate_conflicts(df)
    ELSE valid_gates(closed_gates)

\* Step 10: the flights sitting on an unavailable gate.
flights_to_reassign(df, unavailable) ==
    {f \in DOMAIN df : df[f].gate \in unavailable}

\* Step 11: the identity shortcut is taken.
Shortcut(df, event, force_reassign) ==
    LET unavailable == unavailable_gates(df, event.closed_gates) IN
    \/ unavailable = {} /\ event.delayed_flights = <<>>
    \/ /\ unavailable # {}
       /\ flights_to_reassign(df, unavailable) = {}
       /\ ~force_reassign

(* --------------------------- the model builder ------------------------ *)
\* SatisfiesModel without constraint 2 (no pairwise exclusion of
\* conflicting flights).
SatisfiesModel_without_exclusion(a, df, unavailable) ==
    \A i \in DOMAIN df : a[i] \notin unavailable

\* Constraints 1-3 of the CP model: one gate per flight, conflicting
\* flights on different gates, nobody on an unavailable gate.
SatisfiesModel(a, df, unavailable) ==
    /\ \A i, k \in DOMAIN df :
          (i < k /\ RowsConflict(df[i], df[k])) => a[i] # a[k]
    /\ \A i \in DOMAIN df : a[i] \notin unavailable

FeasibleSet(df, unavailable) ==
    {a \in [DOMAIN df -> Gates] : SatisfiesModel(a, df, unavailable)}

\* The objective: the scaled distance from each flight's gate in the
\* working copy (original_gate_idx) to its candidate gate.
RECURSIVE ObjectiveUpTo(_, _, _)
ObjectiveUpTo(n, a, df) ==
    IF n = 0 THEN 0
    ELSE ObjectiveUpTo(n - 1, a, df) + distance_matrix(df[n].gate, a[n])

Objective(a, df) == ObjectiveUpTo(NumFlights, a, df)

OptimalSet(df, unavailable) ==
    LET feasible == FeasibleSet(df, unavailable) IN
    {a \in feasible : \A b \in feasible : Objective(a, df) <= Objective(b, df)}

(* ------------------------- the optimizer backend ---------------------- *)
\* What solver.Solve may answer for the model: OPTIMAL with a minimum-cost
\* solution, FEASIBLE with any solution (time limit hit before optimality
\* was proved), INFEASIBLE when there is none, UNKNOWN when the time limit
\* is hit with nothing found.
Solve(df, unavailable) ==
    {[status |-> "OPTIMAL", values |-> a] : a \in OptimalSet(df, unavailable)}
    \cup {[status |-> "FEASIBLE", values |-> a] : a \in FeasibleSet(df, unavailable)}
    \cup (IF FeasibleSet(df, unavailable) = {}
          THEN {[status |-> "INFEASIBLE", values |-> [f \in DOMAIN df |-> df[f].gate]]}
          ELSE {})
    \cup {[status |-> "UNKNOWN", values |-> [f \in DOMAIN df |-> df[f].gate]]}

\* A backend that answers OPTIMAL or FEASIBLE with any assignment at all.
AnySolve(df, unavailable) ==
    [status : {"OPTIMAL", "FEASIBLE"}, values : [DOMAIN df -> Gates]]

\* The answers of the backend: "correct" is a solver that keeps its
\* contract, "any" one that may return any assignment.
Answers(backend, df, unavailable) ==
    IF backend = "correct" THEN Solve(df, unavailable)
    ELSE AnySolve(df, unavailable)

(* ------------------ the repair pass and the projector ----------------- *)
\* Lines 725-745: the first gate, in gate_names order, that is not
\* unavailable and on which the flight conflicts with no other flight the
\* working copy currently shows there; None when there is no such gate.
alternative_gate(f, df, unavailable) ==
    LET ok == {alt \in Gates :
                /\ alt \notin unavailable
                /\ \A o \in DOMAIN df :
                      (df[o].gate = alt /\ o # f) => ~RowsConflict(df[f], df[o])}
    IN IF ok = {} THEN None
       ELSE Some(CHOOSE alt \in ok : \A other \in ok : alt <= other)

\* The gate row f ends on: the backend's gate, or the repaired one when
\* the backend put the flight on an unavailable gate.
assigned_gate(f, df, values, unavailable) ==
    IF values[f] \in unavailable /\ alternative_gate(f, df, unavailable) # None
    THEN alternative_gate(f, df, unavailable)[1]
    ELSE values[f]

\* Step 20: the rows are visited in order, each row's gate overwritten in
\* the working copy before the next row is looked at.
RECURSIVE UpdateGates(_, _, _, _)
UpdateGates(i, df, values, unavailable) ==
    IF i > NumFlights THEN df
    ELSE UpdateGates(i + 1,
                     [df EXCEPT ![i].gate = assigned_gate(i, df, values, unavailable)],
                     values, unavailable)

\* The assignment list: one record per row, in row order.
Assignment(before, after) ==
    [i \in DOMAIN before |->
        [flight |-> i,
         original_gate |-> before[i].gate,
         new_gate |-> after[i].gate,
         time |-> after[i].deptime]]

gate_changes(before, after) ==
    {f \in DOMAIN before : before[f].gate # after[f].gate}

(* ------------------------------ results ------------------------------- *)
\* A returned result: the keys it carries and their values ("message" is
\* a tag for the text; objective_value is in hundredths, None for None;
\* http is the status code of the response, 0 when there is no response).
Result(st, ks, asg, msg, obj, code) ==
    [status |-> st, keys |-> ks, assignment |-> asg, message |-> msg,
     objective_value |-> obj, http |-> code]

\* What one call of reassign_gates did: the result it returned and what is
\* needed to judge it (the working copy it planned on, the unavailable
\* gates, the backend's answer, whether it committed).  values are the
\* gates the backend chose; the gates of the working copy stand for them
\* when the backend was not asked or found nothing.
Outcome(res, work, final, unavailable, solver, commit) ==
    [result |-> res, work |-> work, final |-> final,
     unavailable |-> unavailable, solver |-> solver, commit |-> commit,
     values |-> [f \in DOMAIN work |-> work[f].gate]]

\* Steps 1-21 of reassign_gates on the committed frame df, on top of the
\* backend named.
reassign_gates_on(df, event, force_reassign, backend) ==
    LET delayed == ApplyDelays(df, event.delayed_flights)
        work == delayed.df
        unavailable == unavailable_gates(work, event.closed_gates)
    IN
    IF delayed.raised
    THEN {Outcome(Result("failed", {"status", "message"}, <<>>, "error", None, 0),
                  work, work, {}, "NOT_INVOKED", FALSE)}
    ELSE IF Shortcut(work, event, force_reassign)
    THEN {Outcome(Result("success", {"status", "assignment"},
                         Assignment(work, work), "", None, 0),
                  work, work, unavailable, "NOT_INVOKED", FALSE)}
    ELSE IF \E f \in DOMAIN work : work[f].gate \notin Gates
    THEN \* original_gate_idx is NaN: distance_matrix[original_gate] raises
         {Outcome(Result("failed", {"status", "message"}, <<>>, "error", None, 0),
                  work, work, unavailable, "NOT_INVOKED", FALSE)}
    ELSE {IF answer.status \in {"OPTIMAL", "FEASIBLE"}
          THEN LET final == UpdateGates(1, work, answer.values, unavailable)
                   objective_value == Objective(answer.values, work)
               IN [Outcome(Result("success",
                                  {"status", "assignment", "objective_value"},
                                  Assignment(work, final), "",
                                  IF objective_value # 0
                                  THEN Some(objective_value) ELSE None,
                                  0),
                           work, final, unavailable, answer.status,
                           gate_changes(work, final) # {})
                     EXCEPT !.values = answer.values]
          ELSE Outcome(Result("failed", {"status", "message"}, <<>>,
                              "no_solution", None, 0),
                       work, work, unavailable, answer.status, FALSE)
          : answer \in Answers(backend, work, unavailable)}

\* reassign_gates(event_data): every outcome the call can have on the
\* committed frame df.
reassign_gates(df, event, force_reassign) ==
    reassign_gates_on(df, event, force_reassign, "correct")

\* The data file an execution may find missing ("none": both are there).
MissingFiles == {"none", "flight.xlsx", "distance.xlsx"}

\* A call of reassign_gates that finds a data file missing raises
\* FileNotFoundError before it looks at the event.
reassign_gates_unguarded(missing, df, event, force_reassign) ==
    IF missing # "none"
    THEN {Outcome(Result("exception", {}, <<>>, "file_not_found", None, 0),
                  df, df, {}, "NOT_INVOKED", FALSE)}
    ELSE reassign_gates(df, event, force_reassign)

\* reassign_gates in an environment where a data file may be missing: the
\* FileNotFoundError is caught at the end of the function.
reassign_gates_env(missing, df, event, force_reassign) ==
    IF missing # "none"
    THEN {Outcome(Result("failed", {"status", "message"}, <<>>,
                         "file_not_found", None, 0),
                  df, df, {}, "NOT_INVOKED", FALSE)}
    ELSE reassign_gates(df, event, force_reassign)

(* ----------------------------- the API layer -------------------------- *)
\* get_current_flights: the committed rows, each gate overwritten by the
\* new_gate of the flight's record in _latest_assignment when there is one.
get_current_flights(df, latest) ==
    [f \in DOMAIN df |->
        [no |-> f, deptime |-> df[f].deptime,
         gate |-> IF latest # None /\ \E k \in DOMAIN latest[1] : latest[1][k].flight = f
                  THEN LET k == CHOOSE k \in DOMAIN latest[1] :
                                   /\ latest[1][k].flight = f
                                   /\ \A l \in DOMAIN latest[1] :
                                         latest[1][l].flight = f => l <= k
                       IN latest[1][k].new_gate
                  ELSE df[f].gate]]

\* The time check of POST /reassign (app.py lines 127-138) passes.
ValidNewTime(t) ==
    /\ TimeParses(t)
    /\ ~(t.hh < 0 \/ t.hh > 23 \/ t.mm < 0 \/ t.mm > 59)

\* An outcome of POST /reassign that never reached the engine.
Rejected(df, res) == Outcome(res, df, df, {}, "NOT_INVOKED", FALSE)

\* POST /reassign: every outcome of the request on the committed state.
reassign(df, latest, event) ==
    IF \E k \in DOMAIN event.delayed_flights :
          ~ValidNewTime(event.delayed_flights[k].new_time)
    THEN {Rejected(df, Result("failed", {"status", "message"}, <<>>,
                              "bad_time_format", None, 400))}
    ELSE IF event.closed_gates = {} /\ event.delayed_flights = <<>>
    THEN {Rejected(df, Result("failed", {"status", "message"}, <<>>,
                              "empty_request", None, 400)),
          Rejected(df, Result("warning", {"status", "message"}, <<>>,
                              "nothing_specified", None, 400))}
    ELSE IF /\ event.closed_gates # {}
            /\ event.delayed_flights = <<>>
            /\ \A f \in DOMAIN df :
                  get_current_flights(df, latest)[f].gate \notin event.closed_gates
    THEN {Rejected(df, Result("success", {"status", "assignment", "message"}, <<>>,
                              "no_flights_on_closed_gates", None, 200))}
    ELSE {[o EXCEPT !.result.keys = @ \cup {"processing_time"},
                    !.result.http = 200] :
             o \in reassign_gates(df, event, TRUE)}

(* ------------------------------ the events ---------------------------- *)
DelayEntries ==
    [no : Flights \cup {UnknownFlight}, new_time : TimeStrings]

\* The events: at most MaxClosed closed gates and MaxDelays delays, at most
\* MaxEventSize entries in all.
Events ==
    {e \in [closed_gates : {c \in SUBSET (Gates \cup {UnknownGate}) :
                                Cardinality(c) <= MaxClosed},
            delayed_flights : UNION {[1 .. n -> DelayEntries] : n \in 0 .. MaxDelays}] :
        Cardinality(e.closed_gates) + Len(e.delayed_flights) <= MaxEventSize}

\* The events a caller of reassign_gates may pass when nothing has checked
\* them: delay entries may lack a key.
UncheckedEvents ==
    {e \in [closed_gates : {c \in SUBSET (Gates \cup {UnknownGate}) :
                                Cardinality(c) <= MaxClosed},
            delayed_flights :
                UNION {[1 .. n -> [no : Flights \cup {UnknownFlight, NoKey},
                                   new_time : TimeStrings \cup {NoTime}]] :
                       n \in 0 .. MaxDelays}] :
        Cardinality(e.closed_gates) + Len(e.delayed_flights) <= MaxEventSize}

\* The flight table as first loaded: flight f departs at the f-th of the
\* well-formed times (cyclically), on any gate.
InitialDeptime(f) == WellFormedTimes[((f - 1) % Len(WellFormedTimes)) + 1]

InitialTables ==
    {[f \in Flights |-> Row(g[f], InitialDeptime(f))] : g \in [Flights -> Gates]}

(* --------------------- calls of the pure helpers ---------------------- *)
\* The arguments of check_time_overlap: two windows with start < end, in
\* minutes, and a buffer >= 0.
ProbeWindows ==
    {w \in [start : 0 .. MaxMinute, end : 0 .. MaxMinute] : w.start < w.end}

ProbeBuffers == 0 .. MaxBuffer

\* Departure times of a flight table: around midnight, and apart by about
\* the sum of the two occupation margins and the buffer.
ProbeTimes ==
    {TimeString(0, 0), TimeString(0, 10), TimeString(0, 29), TimeString(1, 0),
     TimeString(1, 29), TimeString(1, 30), TimeString(1, 31), TimeString(1, 40),
     TimeString(3, 0), TimeString(23, 30), TimeString(23, 50), TimeString(23, 59)}

\* A row that stands for a bare window (no departure time behind it).
WindowRow(w) == [gate |-> 1, deptime |-> NoTime, start |-> w.start, end |-> w.end]

\* check_time_overlap has not been called: no value yet.
NoAnswer == [conflict |-> FALSE, value |-> None]

\* The call under examination: "windows" is check_time_overlap on two bare
\* windows, in both argument orders; "flights" is the conflict scan and the
\* exclusion constraint on two rows of a flight table that share a gate.
ProbeOf(kind, r1, r2, buffer_time) ==
    [kind |-> kind, pc |-> "input", r1 |-> r1, r2 |-> r2,
     buffer_time |-> buffer_time, out |-> NoAnswer, swapped |-> NoAnswer,
     scan |-> FALSE, excluded |-> FALSE]

\* No helper is being examined.
NoProbe ==
    [ProbeOf("none", WindowRow([start |-> 0, end |-> 0]),
             WindowRow([start |-> 0, end |-> 0]), BUFFER_TIME)
       EXCEPT !.pc = "done"]

(* ------------------------------ the state ----------------------------- *)
VARIABLES
    flights_df,         \* _latest_flights_df
    latest_assignment,  \* _latest_assignment (None or the committed list)
    call,               \* the last call: entry point, input, what it did
    result,             \* the result the last call returned
    nEvents,            \* calls made so far
    initial_df,         \* the table as read from flight.xlsx
    threads,            \* the requests being served concurrently
    snapshots,          \* what get_current_flights lists at the commits
    history,            \* the events of the calls made so far, in order
    probe               \* a call of a pure helper: arguments and values

vars == <<flights_df, latest_assignment, call, result, nEvents,
          initial_df, threads, snapshots, history, probe>>

\* The threads of the server: two serving POST /reassign, one serving
\* GET /current_assignment.
Writers == {"w1", "w2"}
Reader == "r"

\* A thread that has not started on its request; its locals are unset
\* (shown as the table df and the listing of df).
IdleThread(df) ==
    [pc |-> "idle", event |-> [closed_gates |-> {}, delayed_flights |-> <<>>],
     baseline |-> df, final |-> df, assignment |-> <<>>, commit |-> FALSE,
     status |-> "none", listing |-> get_current_flights(df, None), i |-> 0]

\* No request is being served concurrently.
NoThreads(df) ==
    /\ threads = [t \in Writers \cup {Reader} |-> IdleThread(df)]
    /\ snapshots = {get_current_flights(df, None)}

NoEvent == [closed_gates |-> {}, delayed_flights |-> <<>>]

\* The state once flight.xlsx has been loaded (load_current_flights caches
\* the table in _latest_flights_df on its first call); nothing planned yet.
Init ==
    /\ flights_df \in InitialTables
    /\ latest_assignment = None
    /\ call = [entry |-> "none", event |-> NoEvent, force |-> FALSE,
               before |-> flights_df, latest_before |-> None,
               work |-> flights_df, final |-> flights_df,
               unavailable |-> {}, solver |-> "NOT_INVOKED", commit |-> FALSE,
               values |-> [f \in DOMAIN flights_df |-> flights_df[f].gate]]
    /\ result = Result("none", {}, <<>>, "", None, 0)
    /\ nEvents = 0
    /\ initial_df = flights_df
    /\ NoThreads(flights_df)
    /\ history = <<>>
    /\ probe = NoProbe

\* Return with step 21 committing whatever the call ended with.
Return_commits_always(entry, event, force, o) ==
    /\ flights_df' = o.final
    /\ latest_assignment' = Some(o.result.assignment)
    /\ call' = [entry |-> entry, event |-> event, force |-> force,
                before |-> flights_df, latest_before |-> latest_assignment,
                work |-> o.work, final |-> o.final,
                unavailable |-> o.unavailable, solver |-> o.solver,
                commit |-> TRUE, values |-> o.values]
    /\ result' = o.result
    /\ nEvents' = nEvents + 1
    /\ history' = Append(history, event)
    /\ UNCHANGED <<initial_df, threads, snapshots, probe>>

\* Return with step 21 storing the assignment list but not the frame.
Return_assignment_only(entry, event, force, o) ==
    /\ flights_df' = flights_df
    /\ latest_assignment' = IF o.commit THEN Some(o.result.assignment)
                            ELSE latest_assignment
    /\ call' = [entry |-> entry, event |-> event, force |-> force,
                before |-> flights_df, latest_before |-> latest_assignment,
                work |-> o.work, final |-> o.final,
                unavailable |-> o.unavailable, solver |-> o.solver,
                commit |-> o.commit, values |-> o.values]
    /\ result' = o.result
    /\ nEvents' = nEvents + 1
    /\ history' = Append(history, event)
    /\ UNCHANGED <<initial_df, threads, snapshots, probe>>

\* A call returns outcome o: step 21 commits the working copy and the
\* assignment list when some gate changed.
Return(entry, event, force, o) ==
    /\ flights_df' = IF o.commit THEN o.final ELSE flights_df
    /\ latest_assignment' = IF o.commit THEN Some(o.result.assignment)
                            ELSE latest_assignment
    /\ call' = [entry |-> entry, event |-> event, force |-> force,
                before |-> flights_df, latest_before |-> latest_assignment,
                work |-> o.work, final |-> o.final,
                unavailable |-> o.unavailable, solver |-> o.solver,
                commit |-> o.commit, values |-> o.values]
    /\ result' = o.result
    /\ nEvents' = nEvents + 1
    /\ history' = Append(history, event)
    /\ UNCHANGED <<initial_df, threads, snapshots, probe>>

\* reassign_gates called directly.
CallEngine ==
    /\ nEvents < MaxEvents
    /\ \E event \in Events :
          \E o \in reassign_gates(flights_df, event, FALSE) :
             Return("engine", event, FALSE, o)

\* POST /reassign.
PostReassign ==
    /\ nEvents < MaxEvents
    /\ \E event \in Events :
          \E o \in reassign(flights_df, latest_assignment, event) :
             Return("app", event, TRUE, o)

Next == CallEngine \/ PostReassign

Spec == Init /\ [][Next]_vars

\* A flight table in which a flight may sit on a gate that distance.xlsx
\* does not list.
UncheckedTables ==
    {[f \in Flights |-> Row(g[f], InitialDeptime(f))] :
        g \in [Flights -> Gates \cup {UnknownGate}]}

InitUnchecked ==
    /\ flights_df \in UncheckedTables
    /\ latest_assignment = None
    /\ call = [entry |-> "none", event |-> NoEvent, force |-> FALSE,
               before |-> flights_df, latest_before |-> None,
               work |-> flights_df, final |-> flights_df,
               unavailable |-> {}, solver |-> "NOT_INVOKED", commit |-> FALSE,
               values |-> [f \in DOMAIN flights_df |-> flights_df[f].gate]]
    /\ result = Result("none", {}, <<>>, "", None, 0)
    /\ nEvents = 0
    /\ initial_df = flights_df
    /\ NoThreads(flights_df)
    /\ history = <<>>
    /\ probe = NoProbe

\* reassign_gates called directly with unchecked input, in an environment
\* where a data file may be missing (flight.xlsx is only read while no
\* table is cached, that is by the first call).
CallEngineUnchecked ==
    /\ nEvents < MaxEvents
    /\ \E event \in UncheckedEvents, missing \in MissingFiles :
          /\ missing = "flight.xlsx" => nEvents = 0
          /\ \E o \in reassign_gates_env(missing, flights_df, event, FALSE) :
                Return("engine", event, FALSE, o)

NextUnchecked == CallEngineUnchecked

SpecUnchecked == InitUnchecked /\ [][NextUnchecked]_vars

\* reassign_gates called directly, on top of a backend that may return any
\* assignment.
CallEngineAnyBackend ==
    /\ nEvents < MaxEvents
    /\ \E event \in Events :
          \E o \in reassign_gates_on(flights_df, event, FALSE, "any") :
             Return("engine", event, FALSE, o)

NextAnyBackend == CallEngineAnyBackend

SpecAnyBackend == Init /\ [][NextAnyBackend]_vars

(* ------------------------ sequences of events ------------------------ *)
\* The events of a sequence: one known gate closed, no delay.
SeqEvents ==
    {e \in Events : e.delayed_flights = <<>> /\ \E g \in Gates : e.closed_gates = {g}}

\* CallEngineSeq with the closures kept from event to event (every gate an
\* earlier event closed stays closed).
CallEngineSeq_closures_kept ==
    /\ nEvents < MaxSeqEvents
    /\ \E event \in SeqEvents :
          LET kept == UNION {history[k].closed_gates : k \in DOMAIN history} IN
          \E o \in reassign_gates(flights_df,
                                   [event EXCEPT !.closed_gates = @ \cup kept],
                                   FALSE) :
             Return("engine", event, FALSE, o)

\* The next event of the sequence, through reassign_gates.
CallEngineSeq ==
    /\ nEvents < MaxSeqEvents
    /\ \E event \in SeqEvents :
          \E o \in reassign_gates(flights_df, event, FALSE) :
             Return("engine", event, FALSE, o)

\* The next event of the sequence, through POST /reassign.
PostReassignSeq ==
    /\ nEvents < MaxSeqEvents
    /\ \E event \in SeqEvents :
          \E o \in reassign(flights_df, latest_assignment, event) :
             Return("app", event, TRUE, o)

NextSeq == CallEngineSeq \/ PostReassignSeq

SpecSeq == Init /\ [][NextSeq]_vars

(* ----------------------- concurrent requests -------------------------- *)
\* The server runs each request in a thread of its own (app.run, no lock
\* anywhere): a step below is one access to a module global, or the work a
\* thread does on its locals between two accesses.

\* The tables the concurrent requests start from: every flight on a gate
\* of its own, the first flight on the first gate.
ConcTables ==
    {t \in InitialTables :
        /\ t[1].gate = 1
        /\ \A f, g \in Flights : f # g => t[f].gate # t[g].gate}

\* The requests POST /reassign hands to reassign_gates without reading the
\* globals itself: one valid delay of a known flight (here the second
\* flight, moved to the time of another flight), at most one closure.
ConcEvents ==
    {e \in Events :
        /\ Len(e.delayed_flights) = 1
        /\ e.delayed_flights[1].no = 2
        /\ e.delayed_flights[1].new_time = WellFormedTimes[1]
        /\ e.closed_gates \in {{2}, {3}}}

InitConc ==
    /\ flights_df \in ConcTables
    /\ latest_assignment = None
    /\ call = [entry |-> "none", event |-> NoEvent, force |-> FALSE,
               before |-> flights_df, latest_before |-> None,
               work |-> flights_df, final |-> flights_df,
               unavailable |-> {}, solver |-> "NOT_INVOKED", commit |-> FALSE,
               values |-> [f \in DOMAIN flights_df |-> flights_df[f].gate]]
    /\ result = Result("none", {}, <<>>, "", None, 0)
    /\ nEvents = 0
    /\ initial_df = flights_df
    /\ NoThreads(flights_df)
    /\ history = <<>>
    /\ probe = NoProbe

\* reassign_gates step 1: load_current_flights returns a copy of
\* _latest_flights_df.
Load(t) ==
    /\ threads[t].pc = "idle"
    /\ \E event \in ConcEvents :
          threads' = [threads EXCEPT ![t].pc = "loaded",
                                     ![t].event = event,
                                     ![t].baseline = flights_df]
    /\ UNCHANGED <<flights_df, latest_assignment, call, result, nEvents,
                   initial_df, snapshots, history, probe>>

\* Steps 2-20 on the thread's copy; a plan without a gate change returns
\* here.
Plan(t) ==
    /\ threads[t].pc = "loaded"
    /\ \E o \in reassign_gates(threads[t].baseline, threads[t].event, TRUE) :
          threads' = [threads EXCEPT
                         ![t].pc = IF o.commit THEN "commit" ELSE "done",
                         ![t].final = o.final,
                         ![t].assignment = o.result.assignment,
                         ![t].commit = o.commit,
                         ![t].status = o.result.status]
    /\ UNCHANGED <<flights_df, latest_assignment, call, result, nEvents,
                   initial_df, snapshots, history, probe>>

\* Step 21, first statement: _latest_flights_df = flights_df.copy().
\* (snapshots: while the reader is at work, the listing of the state this
\* commit starts from and of the state it is about to leave.)
CommitFrame(t) ==
    /\ threads[t].pc = "commit"
    /\ flights_df' = threads[t].final
    /\ threads' = [threads EXCEPT ![t].pc = "commit_assignment"]
    /\ snapshots' =
          IF threads[Reader].pc = "done" THEN snapshots
          ELSE snapshots \cup
                 {get_current_flights(flights_df, latest_assignment),
                  get_current_flights(threads[t].final,
                                      Some(threads[t].assignment))}
    /\ UNCHANGED <<latest_assignment, call, result, nEvents, initial_df,
                   history, probe>>

\* Step 21, second statement: _latest_assignment = new_assignment.
CommitAssignment(t) ==
    /\ threads[t].pc = "commit_assignment"
    /\ latest_assignment' = Some(threads[t].assignment)
    /\ threads' = [threads EXCEPT ![t].pc = "done"]
    /\ UNCHANGED <<flights_df, call, result, nEvents, initial_df, snapshots,
                   history, probe>>

\* get_current_flights steps 1-5: the listing built from a copy of
\* _latest_flights_df.
ReadFrame ==
    /\ threads[Reader].pc = "idle"
    /\ threads' = [threads EXCEPT
                      ![Reader].pc = "frame_read",
                      ![Reader].baseline = flights_df,
                      ![Reader].listing = get_current_flights(flights_df, None)]
    /\ UNCHANGED <<flights_df, latest_assignment, call, result, nEvents,
                   initial_df, snapshots, history, probe>>

\* Step 6, the test: if _latest_assignment is not None.
CheckAssignment ==
    /\ threads[Reader].pc = "frame_read"
    /\ threads' = [threads EXCEPT
                      ![Reader].pc = IF latest_assignment = None
                                     THEN "done" ELSE "overlay",
                      ![Reader].i = 1]
    /\ UNCHANGED <<flights_df, latest_assignment, call, result, nEvents,
                   initial_df, snapshots, history, probe>>

\* Step 6, one turn of the outer loop: the inner loop reads
\* _latest_assignment anew for each flight of the listing.
OverlayFlight ==
    /\ threads[Reader].pc = "overlay"
    /\ LET i == threads[Reader].i IN
       threads' = [threads EXCEPT
                      ![Reader].listing[i].gate =
                          get_current_flights(threads[Reader].baseline,
                                              latest_assignment)[i].gate,
                      ![Reader].i = i + 1,
                      ![Reader].pc = IF i = NumFlights THEN "done" ELSE "overlay"]
    /\ UNCHANGED <<flights_df, latest_assignment, call, result, nEvents,
                   initial_df, snapshots, history, probe>>

NextConc ==
    \/ \E t \in Writers : Load(t)
    \/ \E t \in Writers : Plan(t)
    \/ \E t \in Writers : CommitFrame(t)
    \/ \E t \in Writers : CommitAssignment(t)
    \/ ReadFrame
    \/ CheckAssignment
    \/ OverlayFlight

SpecConc == InitConc /\ [][NextConc]_vars

(* ------------- sequences of closures, delays and failures ------------- *)
\* The events of a mixed sequence: empty, or one known gate closed, or one
\* known flight delayed to any time string (a malformed one makes the
\* event fail).
MixedEvents ==
    {e \in Events :
        /\ e.closed_gates \subseteq Gates
        /\ \A k \in DOMAIN e.delayed_flights : e.delayed_flights[k].no \in Flights
        /\ Cardinality(e.closed_gates) + Len(e.delayed_flights) <= 1}

\* The table as loaded is free of same-gate conflicts: every flight on a
\* gate of its own.
InitMixed ==
    /\ flights_df \in ConcTables
    /\ latest_assignment = None
    /\ call = [entry |-> "none", event |-> NoEvent, force |-> FALSE,
               before |-> flights_df, latest_before |-> None,
               work |-> flights_df, final |-> flights_df,
               unavailable |-> {}, solver |-> "NOT_INVOKED", commit |-> FALSE,
               values |-> [f \in DOMAIN flights_df |-> flights_df[f].gate]]
    /\ result = Result("none", {}, <<>>, "", None, 0)
    /\ nEvents = 0
    /\ initial_df = flights_df
    /\ NoThreads(flights_df)
    /\ history = <<>>
    /\ probe = NoProbe

\* The next event of the sequence, through reassign_gates.
CallEngineMixed ==
    /\ nEvents < MaxSeqEvents
    /\ \E event \in MixedEvents :
          \E o \in reassign_gates(flights_df, event, FALSE) :
             Return("engine", event, FALSE, o)

\* The next event of the sequence, through POST /reassign.
PostReassignMixed ==
    /\ nEvents < MaxSeqEvents
    /\ \E event \in MixedEvents :
          \E o \in reassign(flights_df, latest_assignment, event) :
             Return("app", event, TRUE, o)

NextMixed == CallEngineMixed \/ PostReassignMixed

SpecMixed == InitMixed /\ [][NextMixed]_vars

(* ------------------- the pure helpers on their own -------------------- *)
\* The inputs of a helper call: any two windows and any buffer, or the rows
\* of any two departure times as load_current_flights computes them.
InitProbe ==
    /\ flights_df = [f \in Flights |-> Row(f, InitialDeptime(f))]
    /\ latest_assignment = None
    /\ call = [entry |-> "none", event |-> NoEvent, force |-> FALSE,
               before |-> flights_df, latest_before |-> None,
               work |-> flights_df, final |-> flights_df,
               unavailable |-> {}, solver |-> "NOT_INVOKED", commit |-> FALSE,
               values |-> [f \in DOMAIN flights_df |-> flights_df[f].gate]]
    /\ result = Result("none", {}, <<>>, "", None, 0)
    /\ nEvents = 0
    /\ initial_df = flights_df
    /\ NoThreads(flights_df)
    /\ history = <<>>
    /\ probe \in
          {ProbeOf("windows", WindowRow(w1), WindowRow(w2), b) :
              w1 \in ProbeWindows, w2 \in ProbeWindows, b \in ProbeBuffers}
          \cup {ProbeOf("flights", Row(1, t1), Row(1, t2), BUFFER_TIME) :
                   t1 \in ProbeTimes, t2 \in ProbeTimes}

\* check_time_overlap on the two windows, and on the same two swapped.
CheckOverlap ==
    /\ probe.kind = "windows"
    /\ probe.pc = "input"
    /\ probe' = [probe EXCEPT
                    !.pc = "done",
                    !.out = check_time_overlap(probe.r1.start, probe.r1.end,
                                               probe.r2.start, probe.r2.end,
                                               probe.buffer_time),
                    !.swapped = check_time_overlap(probe.r2.start, probe.r2.end,
                                                   probe.r1.start, probe.r1.end,
                                                   probe.buffer_time)]
    /\ UNCHANGED <<flights_df, latest_assignment, call, result, nEvents,
                   initial_df, threads, snapshots, history>>

\* The two rows as a table of two flights on one gate: what the conflict
\* scan finds on that gate, and whether the model excludes leaving both
\* flights there.
CheckFlights ==
    /\ probe.kind = "flights"
    /\ probe.pc = "input"
    /\ LET df == <<probe.r1, probe.r2>> IN
       probe' = [probe EXCEPT
                    !.pc = "done",
                    !.out = check_time_overlap(probe.r1.start, probe.r1.end,
                                               probe.r2.start, probe.r2.end,
                                               BUFFER_TIME),
                    !.swapped = check_time_overlap(probe.r2.start, probe.r2.end,
                                                   probe.r1.start, probe.r1.end,
                                                   BUFFER_TIME),
                    !.scan = (gate_conflicts(df) # {}),
                    !.excluded = ~SatisfiesModel([i \in DOMAIN df |-> df[i].gate],
                                                 df, {})]
    /\ UNCHANGED <<flights_df, latest_assignment, call, result, nEvents,
                   initial_df, threads, snapshots, history>>

NextProbe == CheckOverlap \/ CheckFlights

SpecProbe == InitProbe /\ [][NextProbe]_vars

(* ======================== properties of a call ======================== *)
Returned == call.entry # "none"
Success == result.status = "success"
Records == {result.assignment[k] : k \in DOMAIN result.assignment}

\* The record of flight f in the returned assignment (when there is one).
RecordOf(f) == CHOOSE r \in Records : r.flight = f

\* One record per flight of the table, none missing, none twice.
OneRecordPerFlight ==
    /\ Len(result.assignment) = NumFlights
    /\ \A f \in Flights : \E k \in DOMAIN result.assignment :
          result.assignment[k].flight = f

\* The returned list maps every flight to the gate it had.
IdentityAssignment ==
    /\ OneRecordPerFlight
    /\ \A r \in Records :
          r.new_gate = r.original_gate /\ r.original_gate = call.before[r.flight].gate

\* Nothing was committed by the last call.
StateUnchanged ==
    /\ flights_df = call.before
    /\ latest_assignment = call.latest_before

\* The windows of two departure times conflict under BUFFER_TIME.
TimesConflict(t1, t2) == RowsConflict(Row(0, t1), Row(0, t2))

\* The event processed by the last call names an invalid new_time.
MalformedEvent ==
    \E k \in DOMAIN call.event.delayed_flights :
        ~ValidNewTime(call.event.delayed_flights[k].new_time)

\* The relocation cost of an assignment, in thousandths of a unit: the sum
\* of distance(original gate, gate) over the flights.
RECURSIVE CostUpTo(_, _, _)
CostUpTo(n, a, df) ==
    IF n = 0 THEN 0
    ELSE CostUpTo(n - 1, a, df) + distance_df(df[n].gate, a[n])

Cost(a, df) == CostUpTo(NumFlights, a, df)

\* C1: in every result with status 'success', two distinct flights with the
\* same new_gate do not conflict (windows of the post-delay times).
C1_SuccessHasNoConflict ==
    Success =>
        \A r1, r2 \in Records :
            (r1.flight # r2.flight /\ r1.new_gate = r2.new_gate)
                => ~TimesConflict(r1.time, r2.time)

\* C2: a 'success' result holds exactly one record per flight, each on a
\* known gate outside the event's closed-gate set.
C2_Coverage ==
    Success =>
        /\ OneRecordPerFlight
        /\ \A r \in Records :
              r.new_gate \in Gates /\ r.new_gate \notin call.event.closed_gates

\* C3: gates are excluded from the flights' domains only for being in the
\* event's validated closed-gate set, so a plan fails as infeasible only
\* when no conflict-free assignment avoiding those gates exists.
C3_InfeasibleOnlyIfNoOpenAssignment ==
    (result.status = "failed" /\ call.solver = "INFEASIBLE")
        => FeasibleSet(call.work, valid_gates(call.event.closed_gates)) = {}

\* C4: when the backend reports OPTIMAL the cost of the returned assignment
\* is the brute-force minimum over the conflict-free assignments that use
\* no gate of the event's closed-gate set.
C4_OptimalIsBruteForceMinimum ==
    (Returned /\ call.solver = "OPTIMAL") =>
        /\ OneRecordPerFlight
        /\ \A b \in FeasibleSet(call.work, valid_gates(call.event.closed_gates)) :
              Cost([f \in Flights |-> RecordOf(f).new_gate], call.work)
                 <= Cost(b, call.work)

\* C5: after a 'success' the committed frame equals the returned result:
\* each flight on its new_gate, with the returned (delayed) time and window.
C5_CommitEqualsResult ==
    Success =>
        \A r \in Records :
            flights_df[r.flight] = Row(r.new_gate, r.time)

\* The last call closed exactly gate g (no delays) on a conflict-free table
\* in which g hosts two flights and some other gate hosts no flight that
\* conflicts with a flight of g; the backend answered within its time limit.
ClosureCase(g) ==
    /\ Returned
    /\ call.event.delayed_flights = <<>>
    /\ valid_gates(call.event.closed_gates) = {g}
    /\ gate_conflicts(call.before) = {}
    /\ \E f1, f2 \in Flights :
          f1 # f2 /\ call.before[f1].gate = g /\ call.before[f2].gate = g
    /\ \E g2 \in Gates \ {g} : \A f, o \in Flights :
          (call.before[f].gate = g /\ call.before[o].gate = g2)
             => ~RowsConflict(call.before[f], call.before[o])
    /\ call.solver # "UNKNOWN"

\* C6: closing a gate G1 that hosts two non-conflicting flights, with a
\* gate G2 free of conflicting flights (valid table, no delays), returns
\* 'success', moves every flight of G1 to an open gate other than G1, and
\* commits that assignment.
C6_ClosureTriggersReassignment ==
    \A g \in Gates :
        ClosureCase(g) =>
            /\ Success
            /\ OneRecordPerFlight
            /\ \A f \in Flights :
                  call.before[f].gate = g =>
                     /\ RecordOf(f).new_gate \in Gates \ call.event.closed_gates
                     /\ RecordOf(f).new_gate # g
            /\ \A f \in Flights : flights_df[f].gate = RecordOf(f).new_gate
            /\ latest_assignment = Some(result.assignment)

\* C6's case happens: a closure of a gate with two compatible flights was
\* planned and both flights were moved off it.
C6_Witness ==
    \E g \in Gates :
        /\ ClosureCase(g)
        /\ Success
        /\ \E f1, f2 \in Flights :
              /\ f1 # f2
              /\ call.before[f1].gate = g /\ call.before[f2].gate = g
              /\ flights_df[f1].gate # g /\ flights_df[f2].gate # g

\* Flight f was delayed by the last call into a conflict with flight o on
\* the gate both are assigned to, while a conflict-free assignment avoiding
\* the closed gates exists and the backend answered within its time limit.
DelayConflictCase(f, o) ==
    /\ Returned
    /\ f # o
    /\ call.work[f].deptime # call.before[f].deptime
    /\ call.before[f].gate = call.before[o].gate
    /\ ~RowsConflict(call.before[f], call.before[o])
    /\ RowsConflict(call.work[f], call.work[o])
    /\ FeasibleSet(call.work, valid_gates(call.event.closed_gates)) # {}
    /\ call.solver # "UNKNOWN"

\* C7: a delay that makes a flight conflict with another flight on its own
\* gate is replanned with 'success' whenever a conflict-free assignment
\* exists, and the two flights end up apart (or no longer in conflict).
C7_DelayConflictIsReplanned ==
    \A f, o \in Flights :
        DelayConflictCase(f, o) =>
            /\ Success
            /\ OneRecordPerFlight
            /\ \/ RecordOf(f).new_gate # RecordOf(o).new_gate
               \/ ~TimesConflict(RecordOf(f).time, RecordOf(o).time)

\* C8: an empty event on a conflict-free table returns 'success' with the
\* identity assignment, without the optimizer, and changes nothing, through
\* either entry point.
C8_EmptyEventIsIdentity ==
    (/\ Returned
     /\ call.event = NoEvent
     /\ gate_conflicts(call.before) = {})
        => /\ Success
           /\ IdentityAssignment
           /\ call.solver = "NOT_INVOKED"
           /\ StateUnchanged

\* C9: closing only gates that host no flight, with no delays, returns the
\* identity assignment together with an informational message, without the
\* optimizer and without a commit.
C9_ClosureNoOp ==
    (/\ Returned
     /\ call.event.closed_gates # {}
     /\ call.event.delayed_flights = <<>>
     /\ \A f \in Flights : call.before[f].gate \notin call.event.closed_gates)
        => /\ Success
           /\ IdentityAssignment
           /\ "message" \in result.keys
           /\ call.solver = "NOT_INVOKED"
           /\ StateUnchanged

\* C10: an event with a new_time that is not a valid HH:MM is rejected as
\* 'failed' as a whole: the optimizer is not invoked and nothing of the
\* event reaches the committed state.
C10_MalformedTimeRejectsEvent ==
    (Returned /\ MalformedEvent)
        => /\ result.status = "failed"
           /\ call.solver = "NOT_INVOKED"
           /\ StateUnchanged

\* The event without its unknown ids.
KnownPart(event) ==
    [closed_gates |-> event.closed_gates \cap Gates,
     delayed_flights |-> SelectSeq(event.delayed_flights,
                                   LAMBDA d : d.no \in Flights)]

\* The last call's event names an unknown gate or an unknown flight, and
\* every new_time in it is a valid time.
UnknownIdCase ==
    /\ Returned
    /\ ~MalformedEvent
    /\ call.event # KnownPart(call.event)

\* The outcomes the last call's entry point has on the state the call saw.
OutcomesOf(event) ==
    IF call.entry = "app"
    THEN reassign(call.before, call.latest_before, event)
    ELSE reassign_gates(call.before, event, call.force)

\* The new_time of the last delay entry of the event that names flight f.
LastNewTime(event, f) ==
    LET ks == {k \in DOMAIN event.delayed_flights : event.delayed_flights[k].no = f}
    IN event.delayed_flights[CHOOSE k \in ks : \A l \in ks : l <= k].new_time

\* C11: unknown gate ids and unknown flight ids are skipped one by one: the
\* known closures and the delays of known flights of the same event are
\* applied, and the call fails only if it also fails without the unknown ids.
C11_UnknownIdsAreSkipped ==
    UnknownIdCase =>
        /\ call.work = ApplyDelays(call.before,
                                   KnownPart(call.event).delayed_flights).df
        /\ Success =>
              \A r \in Records :
                 /\ r.new_gate \notin call.event.closed_gates
                 /\ (\E k \in DOMAIN call.event.delayed_flights :
                        call.event.delayed_flights[k].no = r.flight)
                       => r.time = LastNewTime(call.event, r.flight)
        /\ (call.solver \in {"OPTIMAL", "FEASIBLE"}) =>
              valid_gates(call.event.closed_gates) \subseteq call.unavailable
        /\ (result.status = "failed" /\ call.solver # "UNKNOWN") =>
              \E o \in OutcomesOf(KnownPart(call.event)) :
                 o.result.status # "success"

\* An event closing an unknown gate and a known gate that hosts a flight was
\* planned: the flight left the known gate and the plan was committed.
C11_Witness ==
    /\ UnknownIdCase
    /\ UnknownGate \in call.event.closed_gates
    /\ Success
    /\ call.commit
    /\ \E f \in Flights :
          /\ call.before[f].gate \in call.event.closed_gates
          /\ RecordOf(f).new_gate \notin call.event.closed_gates

\* C12: when the backend reports INFEASIBLE the result is 'failed' with a
\* message and no assignment, and the committed frame and the committed
\* assignment are what they were before the call.
C12_InfeasibleCommitsNothing ==
    (Returned /\ call.solver = "INFEASIBLE") =>
        /\ result.status = "failed"
        /\ "message" \in result.keys
        /\ "assignment" \notin result.keys
        /\ result.assignment = <<>>
        /\ StateUnchanged

\* The backend reported INFEASIBLE for a working copy that carries a delay
\* the committed frame does not have.
C12_Witness ==
    /\ Returned
    /\ call.solver = "INFEASIBLE"
    /\ call.work # call.before
    /\ flights_df = call.before

\* C13: when the backend stops at its time limit, the solution it holds is
\* used if there is one (FEASIBLE), and otherwise (UNKNOWN) the repair
\* heuristic produces the result: the call does not end as 'failed'.
C13_TimeoutIsRepaired ==
    /\ (Returned /\ call.solver = "FEASIBLE") =>
          (Success /\ OneRecordPerFlight)
    /\ (Returned /\ call.solver = "UNKNOWN") =>
          (result.status # "failed" /\ "assignment" \in result.keys)

\* The assignment the last call ended with breaks a validity invariant: a
\* flight sits on a gate of the unavailable set, or two flights on one gate
\* conflict.
Degraded ==
    \/ \E f \in Flights : call.final[f].gate \in call.unavailable
    \/ gate_conflicts(call.final) # {}

\* C14: whatever assignment the backend returns, a result that leaves a
\* flight on an unavailable gate or breaks another validity invariant has
\* status 'warning', never 'success', and still holds every flight.
C14_DegradedIsNeverSuccess ==
    (/\ Returned
     /\ call.solver \in {"OPTIMAL", "FEASIBLE"}
     /\ Degraded)
        => /\ result.status = "warning"
           /\ OneRecordPerFlight

\* The last call hit an internal failure: a data file was missing, a delay
\* entry lacked a key or carried an unparsable time for a known flight, or
\* a flight's gate was not a known gate when the model was built.
InternalFailure ==
    /\ Returned
    /\ result.message \in {"error", "file_not_found"}

\* C15: every call of reassign_gates returns a result with status 'success'
\* or 'failed'; an internal failure becomes 'failed' with a message, is not
\* raised to the caller, and leaves the committed state unchanged.
C15_FailuresAreReturned ==
    Returned =>
        /\ result.status \in {"success", "failed"}
        /\ InternalFailure =>
              /\ result.status = "failed"
              /\ "message" \in result.keys
        /\ result.status = "failed" => StateUnchanged

\* A flight sat on a gate that is not in the gate set, a delay had been
\* applied to the working copy, and the failure was returned as 'failed'.
C15_Witness ==
    /\ InternalFailure
    /\ result.status = "failed"
    /\ \E f \in Flights : call.before[f].gate = UnknownGate
    /\ call.work # call.before
    /\ flights_df = call.before

\* Writer t is between loading the committed table and the end of its
\* commit.
Planning(t) == threads[t].pc \in {"loaded", "commit", "commit_assignment"}

\* Both writers planned from one baseline and both committed different
\* plans: the plan committed first is gone and the other was made without it.
LostUpdate ==
    /\ \A t \in Writers : threads[t].pc = "done" /\ threads[t].commit
    /\ threads["w1"].baseline = threads["w2"].baseline
    /\ threads["w1"].final # threads["w2"].final

\* C16: two POST /reassign requests are never planned at the same time
\* against the shared state, and no two committed plans start from the same
\* baseline (no lost update).
C16_NoInterleavedPlans ==
    /\ ~(Planning("w1") /\ Planning("w2"))
    /\ ~LostUpdate

\* C17: the listing a get_current_flights call returns is what the state
\* before or after a commit lists (gates and times); it never mixes the
\* frame of one committed state with the assignment of another.
C17_ReadSeesWholeCommit ==
    threads[Reader].pc = "done" => threads[Reader].listing \in snapshots

\* The objective_value of the last result, in hundredths (0 when None).
ReportedObjective ==
    IF result.objective_value = None THEN 0 ELSE result.objective_value[1]

\* The scaled relocation cost of the returned assignment, measured from the
\* gates of the table df.
RECURSIVE ScaledCostUpTo(_, _)
ScaledCostUpTo(n, df) ==
    IF n = 0 THEN 0
    ELSE ScaledCostUpTo(n - 1, df) + distance_matrix(df[n].gate, RecordOf(n).new_gate)

\* C18: across a sequence of events, the original_gate reported for a
\* flight and the gate its relocation cost is measured from are the gate of
\* the initial input data, not the gate of an earlier committed plan.
C18_OriginalGateIsInitialGate ==
    (Returned /\ Success /\ OneRecordPerFlight) =>
        /\ \A r \in Records : r.original_gate = initial_df[r.flight].gate
        /\ call.solver \in {"OPTIMAL", "FEASIBLE"} =>
              ReportedObjective = ScaledCostUpTo(NumFlights, initial_df)

\* The x100 integer-scaled relocation cost of the returned assignment, from
\* each record's original_gate to its new_gate.
RECURSIVE ResultCostUpTo(_)
ResultCostUpTo(k) ==
    IF k = 0 THEN 0
    ELSE ResultCostUpTo(k - 1)
           + distance_matrix(result.assignment[k].original_gate,
                             result.assignment[k].new_gate)

\* C19: every 'success' result carries objective_value, equal to the scaled
\* relocation cost of the returned assignment divided by 100, also when the
\* cost is 0 and when the shortcut answered.
C19_ObjectiveIsReported ==
    Success =>
        /\ "objective_value" \in result.keys
        /\ result.objective_value = Some(ResultCostUpTo(Len(result.assignment)))

\* C20: while two flights of the current state conflict on a gate, every
\* call goes through the optimizer, whatever the event names, and the
\* identity assignment is not returned as 'success'.
C20_ConflictAlwaysReplans ==
    (Returned /\ ~MalformedEvent /\ gate_conflicts(call.before) # {}) =>
        /\ call.solver # "NOT_INVOKED"
        /\ ~(Success /\ IdentityAssignment)

(* ==================== properties of the pure helpers ================== *)
\* check_time_overlap has been applied to two bare windows.
ProbedWindows == probe.kind = "windows" /\ probe.pc = "done"

\* The gap between two windows of which one ends at or before the other
\* begins.
ProbeGap ==
    IF probe.r1.end <= probe.r2.start THEN probe.r2.start - probe.r1.end
    ELSE probe.r1.start - probe.r2.end

ProbeDisjoint ==
    probe.r1.end <= probe.r2.start \/ probe.r2.end <= probe.r1.start

\* C21: for windows with start < end, when one window ends at or before the
\* other begins check_time_overlap returns (True, gap) if gap < buffer_time
\* and (False, None) if gap >= buffer_time, the gap being >= 0; otherwise
\* it returns (True, min(e1, e2) - max(s1, s2)), which is > 0.  A gap of
\* exactly the buffer is no conflict; touching windows (gap 0) conflict
\* under a positive buffer.
C21_OverlapThreeWay ==
    ProbedWindows =>
        IF ProbeDisjoint
        THEN /\ ProbeGap >= 0
             /\ ProbeGap < probe.buffer_time =>
                   probe.out = [conflict |-> TRUE, value |-> Some(ProbeGap)]
             /\ ProbeGap >= probe.buffer_time =>
                   probe.out = [conflict |-> FALSE, value |-> None]
             /\ ProbeGap = probe.buffer_time => ~probe.out.conflict
             /\ (ProbeGap = 0 /\ probe.buffer_time > 0) => probe.out.conflict
        ELSE /\ probe.out.conflict
             /\ probe.out.value =
                   Some(Min(probe.r1.end, probe.r2.end)
                        - Max(probe.r1.start, probe.r2.start))
             /\ probe.out.value[1] > 0

\* Two windows exactly one positive buffer apart have been compared.
C21_Witness ==
    /\ ProbedWindows
    /\ ProbeDisjoint
    /\ probe.buffer_time > 0
    /\ ProbeGap = probe.buffer_time
    /\ ~probe.out.conflict

\* The scan and the exclusion constraint have been applied to two rows.
ProbedFlights == probe.kind = "flights" /\ probe.pc = "done"

\* C22: the conflict predicate is symmetric: for windows with start < end
\* and a buffer >= 0, swapping the two windows gives the same flag and the
\* same magnitude; and the conflict scan and the pairwise exclusion
\* constraints apply that same predicate with the same buffer: two flights
\* on one gate are reported by the scan exactly when the model forbids
\* them to share the gate, which is exactly when check_time_overlap with
\* BUFFER_TIME flags them.
C22_ConflictIsSymmetric ==
    /\ ProbedWindows => probe.out = probe.swapped
    /\ ProbedFlights =>
          /\ probe.out = probe.swapped
          /\ probe.scan = probe.out.conflict
          /\ probe.excluded = probe.out.conflict

\* Two flights whose windows do not overlap but lie closer than the buffer,
\* the later one given first.
C22_Witness ==
    /\ ProbedFlights
    /\ probe.r2.end <= probe.r1.start
    /\ probe.r1.start - probe.r2.end > 0
    /\ probe.out.conflict
    /\ probe.scan
    /\ probe.excluded

\* The minutes between the two departure times compared.
ProbeMinutesApart ==
    LET m1 == time_to_minutes(probe.r1.deptime)
        m2 == time_to_minutes(probe.r2.deptime)
    IN IF m1 >= m2 THEN m1 - m2 ELSE m2 - m1

\* C29: under the fixed constants (30 minutes held before and after the
\* departure, buffer 30) two flights are same-gate incompatible exactly
\* when their departure minutes differ by less than 90.  The windows are
\* plain differences and sums, never taken modulo 1440 (start is negative
\* for a departure before 00:30, end exceeds 1440 for one after 23:30), so
\* a flight of the last hour of the day never conflicts with one of the
\* first hour.
C29_NinetyMinutesNoWrap ==
    ProbedFlights =>
        /\ probe.out.conflict <=> ProbeMinutesApart < 90
        /\ \A r \in {probe.r1, probe.r2} :
              /\ r.start = time_to_minutes(r.deptime) - 30
              /\ r.end = time_to_minutes(r.deptime) + 30
              /\ time_to_minutes(r.deptime) < 30 => r.start < 0
              /\ time_to_minutes(r.deptime) > 1410 => r.end > 1440
        /\ (probe.r1.deptime.hh = 23 /\ probe.r2.deptime.hh = 0) =>
              ~probe.out.conflict

\* A departure twenty minutes before midnight compared with one ten
\* minutes after it.
C29_Witness ==
    /\ ProbedFlights
    /\ probe.r1.deptime = TimeString(23, 50)
    /\ probe.r2.deptime = TimeString(0, 10)
    /\ probe.r1.end > 1440
    /\ probe.r2.start < 0
    /\ ~probe.out.conflict

(* =================== properties of sequences of events ================ *)
\* The row's window is the hour around its departure time.
WindowOk(r) ==
    /\ r.start < r.end
    /\ r.start = time_to_minutes(r.deptime) - 30
    /\ r.end = time_to_minutes(r.deptime) + 30
    /\ r.end - r.start = 60

\* The last call went through the delay step of reassign_gates without
\* raising.
DelaysApplied == Returned /\ result.message \in {"", "no_solution"}

\* The last call's event delays flight f.
DelayedInEvent(f) ==
    \E k \in DOMAIN call.event.delayed_flights :
        call.event.delayed_flights[k].no = f

C24_SkipIsInTheMessage ==
    UnknownIdCase => "message" \in result.keys

\* The backend placed flight f on an unavailable gate and the repair pass
\* moved it to another gate.
Repaired(f) ==
    /\ Returned
    /\ Success
    /\ call.solver \in {"OPTIMAL", "FEASIBLE"}
    /\ call.values[f] \in call.unavailable
    /\ call.final[f].gate # call.values[f]

\* The gates open to a repair of flight f: available, and free of any
\* flight finalized before f (an earlier row, on its final gate) that
\* conflicts with f.
RepairCandidates(f) ==
    {alt \in Gates :
        /\ alt \notin call.unavailable
        /\ \A o \in Flights :
              (o < f /\ call.final[o].gate = alt)
                 => ~RowsConflict(call.work[f], call.work[o])}

\* C25: a flight the backend placed on an unavailable gate is moved by the
\* repair to the first gate, in distance-matrix order, that is available
\* and on which it conflicts with no flight already finalized there;
\* consequently the repaired flight conflicts with no flight that shares
\* its gate in the returned assignment.
C25_RepairLeavesNoConflict ==
    \A f \in Flights :
        Repaired(f) =>
            /\ call.final[f].gate \in RepairCandidates(f)
            /\ \A alt \in RepairCandidates(f) : call.final[f].gate <= alt
            /\ \A o \in Flights :
                  (o # f /\ RecordOf(o).new_gate = RecordOf(f).new_gate)
                     => ~RowsConflict(call.work[f], call.work[o])

\* C26: from a table as loaded without same-gate conflict, on a backend
\* that returns only assignments satisfying the model, after any sequence
\* of events (closures, delays, empty or failing events) processed one at
\* a time the committed table _latest_flights_df holds no two flights on
\* one gate whose windows conflict under BUFFER_TIME.
C26_CommittedStateIsConflictFree ==
    gate_conflicts(initial_df) = {} => gate_conflicts(flights_df) = {}

\* After two events the committed table differs from the loaded one in a
\* departure time, the last call committed, and two flights share a gate.
C26_Witness ==
    /\ nEvents = 2
    /\ call.commit
    /\ gate_conflicts(initial_df) = {}
    /\ \E f \in Flights : flights_df[f].deptime # initial_df[f].deptime
    /\ \E f, g \in Flights : f # g /\ flights_df[f].gate = flights_df[g].gate

\* The conflict case: the last call's event names no closed gate at all,
\* the scan found a conflict on gate g of the working copy (delays
\* applied), and the plan was built.
ConflictGateCase(g) ==
    /\ Returned
    /\ call.solver # "NOT_INVOKED"
    /\ call.event.closed_gates = {}
    /\ g \in gate_conflicts(call.work)

\* C27: when the event names no closed gates and the conflict scan, run
\* after the delays, finds a conflict on gate G, G is unavailable in that
\* plan like a closed gate: in a 'success' result no flight at all is
\* assigned to G, flights of G outside every conflict included.  When the
\* event does name closed gates, the unavailable gates are the known
\* closed gates only: conflicted gates are not added.
C27_ConflictedGateIsEmptied ==
    /\ \A g \in Gates :
          ConflictGateCase(g) =>
              /\ g \in call.unavailable
              /\ Success => \A r \in Records : r.new_gate # g
    /\ (Returned /\ call.solver # "NOT_INVOKED" /\ call.event.closed_gates # {}) =>
          call.unavailable = valid_gates(call.event.closed_gates)

\* A gate with two conflicting flights and a third flight that conflicts
\* with no one was emptied, the third flight included.
C27_Witness ==
    \E g \in Gates :
        /\ ConflictGateCase(g)
        /\ Success
        /\ \E f \in Flights :
              /\ call.work[f].gate = g
              /\ \A o \in Flights : o # f => ~RowsConflict(call.work[f], call.work[o])
              /\ RecordOf(f).new_gate # g
        /\ \A r \in Records : r.new_gate # g

\* The gates closed by an event before the last one and not by the last
\* one.
ReopenedGates ==
    UNION {history[k].closed_gates : k \in 1 .. Len(history) - 1}
       \ call.event.closed_gates

\* C28: closures are per event and no part of the committed state: a gate
\* closed by an earlier event and not listed by the current one is not
\* unavailable in the current plan (it is in every flight's domain), so a
\* flight may be assigned to it again.
C28_ClosuresArePerEvent ==
    Returned => \A g \in ReopenedGates \cap Gates : g \notin call.unavailable

\* A flight that the first event moved off the gate it closed is planned
\* back onto that gate by the second event.
C28_Witness ==
    /\ Len(history) = 2
    /\ Success
    /\ call.commit
    /\ \E f \in Flights :
          /\ initial_df[f].gate \in history[1].closed_gates
          /\ call.before[f].gate # initial_df[f].gate
          /\ initial_df[f].gate \in ReopenedGates
          /\ RecordOf(f).new_gate = initial_df[f].gate

\* C30: under one-at-a-time processing, whenever _latest_assignment is not
\* None it holds one record per flight of _latest_flights_df and each
\* record's new_gate is that flight's gate in _latest_flights_df, so the
\* gate overwrite of get_current_flights changes nothing: the served state
\* is the committed table.
C30_AssignmentMirrorsFrame ==
    latest_assignment # None =>
        /\ \A f \in Flights :
              /\ Cardinality({k \in DOMAIN latest_assignment[1] :
                                 latest_assignment[1][k].flight = f}) = 1
              /\ \A k \in DOMAIN latest_assignment[1] :
                    latest_assignment[1][k].flight = f
                       => latest_assignment[1][k].new_gate = flights_df[f].gate
        /\ \A k \in DOMAIN latest_assignment[1] :
              latest_assignment[1][k].flight \in Flights
        /\ get_current_flights(flights_df, latest_assignment)
              = get_current_flights(flights_df, None)

\* A second plan was committed over a first one, and the served state
\* shows a flight away from the gate it was loaded on.
C30_Witness ==
    /\ nEvents = 2
    /\ call.commit
    /\ call.latest_before # None
    /\ latest_assignment # None
    /\ latest_assignment # call.latest_before
    /\ \E f \in Flights :
          get_current_flights(flights_df, latest_assignment)[f].gate
             # initial_df[f].gate

====
